---- MODULE Spec2Model ----
(***************************************************************************)
(* Fabrik: PBR texture generator.                                          *)
(*   src/nani/src/App.tsx                 upload, Regenerate, Clear        *)
(*   src/nani/src/utils/pbrGenerator.ts   resize and the map generators    *)
(*                                                                         *)
(* Spec        the App: file readers and generations in flight             *)
(* SpecResize  the resize step and the canvas sizes, on source dimensions  *)
(* SpecPix     the map generators, on small images                         *)
(* SpecMetal   the map generators, on pairs of pixels of equal luminance   *)
(* SpecSteps   the loops of the generators, one iteration at a time        *)
(*                                                                         *)
(* The generators compute in exact arithmetic.  The doubles of the code    *)
(* differ from the exact numbers by rounding errors far below the 1/2 that *)
(* decides a stored byte, so a byte of the model can differ from the byte  *)
(* of the code, by one, only where the exact number is a half-integer and  *)
(* the doubles miss it.  The resize step is computed as the doubles do.    *)
(***************************************************************************)
EXTENDS Integers, Sequences, FiniteSets, TLC

VARIABLES
    uploadedImage,       \* App.tsx:30   data URL of the loaded image or Null
    pbrTextures,         \* App.tsx:31   the displayed texture set or Null
    isGenerating,        \* App.tsx:32
    aoIntensity,         \* App.tsx:34   slider values, in units of 1/ParamScale
    roughnessIntensity,  \* App.tsx:35
    metallicIntensity,   \* App.tsx:36
    normalStrength,      \* App.tsx:37
    toast,               \* the last toast shown (sonner)
    readers,             \* the data URLs whose FileReader onload has not fired yet
    gens,                \* the generateTextures calls in flight, in start order
    started,             \* number of generateTextures calls so far
    run                  \* one run of the pipeline on its own (SpecResize, SpecPix)

vars == <<uploadedImage, pbrTextures, isGenerating, aoIntensity,
          roughnessIntensity, metallicIntensity, normalStrength, toast,
          readers, gens, started, run>>

appVars == <<uploadedImage, pbrTextures, isGenerating, aoIntensity,
             roughnessIntensity, metallicIntensity, normalStrength, toast,
             readers, gens, started>>

Null == "null"

\* the value of run while the App is what runs
Idle == [phase |-> "idle"]

\* the null of a PBRTextures | null
NoTextures == [none |-> TRUE]

----------------------------------------------------------------------------
(* Bounds *)

MaxGens == 2        \* generateTextures calls per behaviour
MaxMoved == 1       \* the first MaxMoved sliders of SliderOrder are moved

----------------------------------------------------------------------------
(* Parameters.  A slider value v stands for v / ParamScale. *)

ParamScale == 20

SliderNames == {"aoIntensity", "roughnessIntensity", "metallicIntensity", "normalStrength"}

\* the sliders in the order of the parameter card (App.tsx:291-346)
SliderOrder == <<"aoIntensity", "roughnessIntensity", "metallicIntensity", "normalStrength">>
MovedSliders == {SliderOrder[i] : i \in 1..(IF MaxMoved < 4 THEN MaxMoved ELSE 4)}

\* App.tsx:34-37: the useState defaults 1, 1, 0.5, 1
SliderDefault ==
    [aoIntensity |-> 20, roughnessIntensity |-> 20,
     metallicIntensity |-> 10, normalStrength |-> 20]

\* App.tsx:299-301, 313-315, 327-329, 341-343: min, max, step of each slider
SliderMin == [n \in SliderNames |-> 0]
SliderMax ==
    [aoIntensity |-> 40, roughnessIntensity |-> 40,
     metallicIntensity |-> 20, normalStrength |-> 40]
SliderStep ==
    [aoIntensity |-> 2, roughnessIntensity |-> 2,
     metallicIntensity |-> 1, normalStrength |-> 2]

\* the positions the model moves a slider to: its default and its upper end
SliderValues(n) == {SliderDefault[n], SliderMax[n]}

\* the PBROptions record built at App.tsx:59-64 from the state of one render
CurrentOptions ==
    [aoIntensity |-> aoIntensity, roughnessIntensity |-> roughnessIntensity,
     metallicIntensity |-> metallicIntensity, normalStrength |-> normalStrength]

\* handleFileUpload is memoised with an empty dependency list (App.tsx:54), so
\* the generateTextures it calls is the one of the first render, whose
\* options are the useState defaults.
FirstRenderOptions == SliderDefault

----------------------------------------------------------------------------
(* Files and images *)

\* data URLs: two images that decode, and one that does not
DataUrls == {"imgA", "imgB", "corrupt"}
Decodable(url) == url # "corrupt"

\* file.type is a MIME type, or the empty string when the browser knows
\* none
FileTypes ==
    {"image/png", "text/plain", "application/image/png", "image", ""}

\* the files a user picks or drops: an image file of each data URL, and a
\* file of each type with the content of imgA
Files ==
    [type : {"image/png"}, url : DataUrls] \cup [type : FileTypes, url : {"imgA"}]

\* String.prototype.startsWith
startsWith(s, prefix) ==
    Len(s) >= Len(prefix) /\ SubSeq(s, 1, Len(prefix)) = prefix

\* the test looks for 'image/' anywhere in the type
IsImageTypeAnywhere(t) ==
    \E i \in 1..Len(t) : startsWith(SubSeq(t, i, Len(t)), "image/")

\* App.tsx:42  file.type.startsWith('image/')
IsImageType(t) == startsWith(t, "image/")

----------------------------------------------------------------------------
(* generatePBRTextures as the App sees it (pbrGenerator.ts:191-287) *)

MapNames == {"albedo", "ao", "roughness", "metallic", "normal"}

DerivedMaps == MapNames \ {"albedo"}

\* the option each map is computed from (pbrGenerator.ts:233, 243, 253, 263)
MapOption(m, options) ==
    CASE m = "albedo"    -> Null
      [] m = "ao"        -> options.aoIntensity
      [] m = "roughness" -> options.roughnessIntensity
      [] m = "metallic"  -> options.metallicIntensity
      [] m = "normal"    -> options.normalStrength

\* The steps of img.onload in program order (pbrGenerator.ts:199-278): the
\* source canvas, the five map canvases, then the five toDataURL calls inside
\* the argument of resolve.
OnloadSteps ==
    <<"source", "albedo", "ao", "roughness", "metallic", "normal",
      "enc_albedo", "enc_ao", "enc_roughness", "enc_metallic", "enc_normal">>

NoFailure == 0
FailurePoints == 0..Len(OnloadSteps)

\* the data URL of map m of an invocation
EncodedMap(m, imageSrc, options) ==
    [map |-> m, src |-> imageSrc, option |-> MapOption(m, options)]

\* the maps whose toDataURL call returned before step failAt threw
EncodedBefore(failAt) ==
    {m \in MapNames :
        \E i \in 1..Len(OnloadSteps) :
            /\ OnloadSteps[i] = "enc_" \o m
            /\ (failAt = NoFailure \/ i < failAt)}

\* a generator has run when step failAt throws, or when none does
\* (pbrGenerator.ts:233, 243, 253, 263)
GeneratedBefore(failAt) ==
    \E m \in DerivedMaps : \E i \in 1..Len(OnloadSteps) :
        OnloadSteps[i] = m /\ (failAt = NoFailure \/ i < failAt)

\* what a promise rejects with: the Error of pbrGenerator.ts:284, or the
\* exception caught at pbrGenerator.ts:279
LoadError == "Failed to load image"
Thrown == "exception"
NoError == "none"

\* img.onload that resolves with the maps encoded before the failure
PartialResolve(imageSrc, options, failAt) ==
    [status |-> "resolved",
     value  |-> [m \in EncodedBefore(failAt) |-> EncodedMap(m, imageSrc, options)],
     error  |-> NoError, generated |-> GeneratedBefore(failAt)]

\* img.onload: try { ... resolve({five maps}) } catch (error) { reject(error) }
\* failAt is the step that throws, NoFailure when none does.
Onload(imageSrc, options, failAt) ==
    IF failAt = NoFailure
    THEN [status |-> "resolved",
          value  |-> [m \in MapNames |-> EncodedMap(m, imageSrc, options)],
          error  |-> NoError, generated |-> TRUE]
    ELSE [status |-> "rejected", value |-> NoTextures,
          error  |-> Thrown, generated |-> GeneratedBefore(failAt)]

\* img.onerror (pbrGenerator.ts:284)
Onerror ==
    [status |-> "rejected", value |-> NoTextures,
     error  |-> LoadError, generated |-> FALSE]

----------------------------------------------------------------------------
(* The App *)

GenIds == 1..Len(gens)

\* the promise of generatePBRTextures is still pending
Pending == {g \in GenIds : gens[g].status = "pending"}

\* A promise that has settled while the await of generateTextures has not
\* resumed yet.  The resumption is a microtask: it runs before any other
\* event handler does.
Resuming == GenIds \ Pending

\* The state of the App component on its first render, App.tsx:30-37
InitApp ==
    /\ uploadedImage = Null
    /\ pbrTextures = NoTextures
    /\ isGenerating = FALSE
    /\ aoIntensity = SliderDefault.aoIntensity
    /\ roughnessIntensity = SliderDefault.roughnessIntensity
    /\ metallicIntensity = SliderDefault.metallicIntensity
    /\ normalStrength = SliderDefault.normalStrength
    /\ toast = "none"
    /\ readers = {}
    /\ gens = <<>>
    /\ started = 0

Init == InitApp /\ run = Idle

\* App.tsx:56-64, up to the await: setIsGenerating(true) and the call of
\* generatePBRTextures, which sets img.src.  Two fields are history for the
\* properties: startPbr is the displayed set at the moment of the call,
\* newerDone says that a generation started later has delivered its result,
\* and settled counts the calls of resolve and reject that took effect.
generateTextures(imageSrc, options) ==
    /\ started < MaxGens
    /\ started' = started + 1
    /\ isGenerating' = TRUE
    /\ gens' = Append(gens,
            [src |-> imageSrc, options |-> options,
             status |-> "pending", value |-> NoTextures,
             error |-> NoError, generated |-> FALSE,
             startPbr |-> pbrTextures, newerDone |-> FALSE, settled |-> 0])

\* App.tsx:41-54.  The upload area is rendered only while no image is
\* loaded (App.tsx:159).
handleFileUpload(file) ==
    /\ uploadedImage = Null
    /\ Resuming = {}
    /\ IF ~IsImageType(file.type)
       THEN /\ toast' = "Please upload an image file"
            /\ UNCHANGED readers
       ELSE /\ readers' = readers \cup {file.url}
            /\ UNCHANGED toast
    /\ UNCHANGED <<uploadedImage, pbrTextures, isGenerating, aoIntensity,
                   roughnessIntensity, metallicIntensity, normalStrength,
                   gens, started, run>>

RemoveAt(s, i) == SubSeq(s, 1, i - 1) \o SubSeq(s, i + 1, Len(s))

\* reader.onload, App.tsx:48-52
readerOnload(result) ==
    /\ Resuming = {}
    /\ result \in readers
    /\ uploadedImage' = result
    /\ generateTextures(result, FirstRenderOptions)
    /\ readers' = readers \ {result}
    /\ UNCHANGED <<pbrTextures, aoIntensity, roughnessIntensity,
                   metallicIntensity, normalStrength, toast, run>>

\* App.tsx:85-89; the button is in the editor (uploadedImage set) and is
\* disabled while isGenerating (App.tsx:270-275)
regenerateTextures ==
    /\ Resuming = {}
    /\ uploadedImage # Null
    /\ ~isGenerating
    /\ generateTextures(uploadedImage, CurrentOptions)
    /\ UNCHANGED <<uploadedImage, pbrTextures, aoIntensity, roughnessIntensity,
                   metallicIntensity, normalStrength, toast, readers, run>>

\* App.tsx:91-97; the Clear button is rendered while an image is loaded
\* (App.tsx:138)
clearAll ==
    /\ Resuming = {}
    /\ uploadedImage # Null
    /\ uploadedImage' = Null
    /\ pbrTextures' = NoTextures
    /\ UNCHANGED <<isGenerating, aoIntensity, roughnessIntensity,
                   metallicIntensity, normalStrength, toast, readers, gens,
                   started, run>>

\* Slider onValueChange, App.tsx:298, 312, 326, 340; the sliders are in the
\* editor
setSlider(n, v) ==
    /\ Resuming = {}
    /\ uploadedImage # Null
    /\ v \in SliderValues(n)
    /\ v # CurrentOptions[n]
    /\ aoIntensity' = IF n = "aoIntensity" THEN v ELSE aoIntensity
    /\ roughnessIntensity' = IF n = "roughnessIntensity" THEN v ELSE roughnessIntensity
    /\ metallicIntensity' = IF n = "metallicIntensity" THEN v ELSE metallicIntensity
    /\ normalStrength' = IF n = "normalStrength" THEN v ELSE normalStrength
    /\ UNCHANGED <<uploadedImage, pbrTextures, isGenerating, toast, readers,
                   gens, started, run>>

\* resolve or reject: a promise that has settled stays as it is
Settle(g, outcome) ==
    gens' = [gens EXCEPT
                ![g] = IF @.status # "pending" THEN @
                       ELSE [@ EXCEPT !.status = outcome.status,
                                      !.value = outcome.value,
                                      !.error = outcome.error,
                                      !.generated = outcome.generated,
                                      !.settled = @ + 1]]

\* the image of generation g decodes: img.onload (pbrGenerator.ts:199-282)
imgOnload(g, failAt) ==
    /\ Resuming = {}
    /\ g \in Pending
    /\ Decodable(gens[g].src)
    /\ Settle(g, Onload(gens[g].src, gens[g].options, failAt))
    /\ UNCHANGED <<uploadedImage, pbrTextures, isGenerating, aoIntensity,
                   roughnessIntensity, metallicIntensity, normalStrength,
                   toast, readers, started, run>>

\* the image that does not decode is handled by img.onload
imgOnerrorDecoding(g) ==
    /\ Resuming = {}
    /\ g \in Pending
    /\ ~Decodable(gens[g].src)
    /\ Settle(g, Onload(gens[g].src, gens[g].options, NoFailure))
    /\ UNCHANGED <<uploadedImage, pbrTextures, isGenerating, aoIntensity,
                   roughnessIntensity, metallicIntensity, normalStrength,
                   toast, readers, started, run>>

\* the image of generation g does not decode: img.onerror (pbrGenerator.ts:284)
imgOnerror(g) ==
    /\ Resuming = {}
    /\ g \in Pending
    /\ ~Decodable(gens[g].src)
    /\ Settle(g, Onerror)
    /\ UNCHANGED <<uploadedImage, pbrTextures, isGenerating, aoIntensity,
                   roughnessIntensity, metallicIntensity, normalStrength,
                   toast, readers, started, run>>

\* the generations started before g that are still in flight learn that a
\* newer one has delivered
MarkOlder(gs, g) ==
    [k \in DOMAIN gs |-> IF k < g THEN [gs[k] EXCEPT !.newerDone = TRUE] ELSE gs[k]]

\* resume with a catch block that also drops the displayed set
resumeClearing(g) ==
    /\ g \in Resuming
    /\ IF gens[g].status = "resolved"
       THEN /\ pbrTextures' = gens[g].value
            /\ toast' = "PBR textures generated successfully!"
            /\ gens' = RemoveAt(MarkOlder(gens, g), g)
       ELSE /\ toast' = "Failed to generate PBR textures"
            /\ gens' = RemoveAt(gens, g)
            /\ pbrTextures' = NoTextures
    /\ isGenerating' = FALSE
    /\ UNCHANGED <<uploadedImage, aoIntensity, roughnessIntensity,
                   metallicIntensity, normalStrength, readers, started, run>>

\* App.tsx:65-72: generateTextures resumes after the await
resume(g) ==
    /\ g \in Resuming
    /\ IF gens[g].status = "resolved"
       THEN /\ pbrTextures' = gens[g].value
            /\ toast' = "PBR textures generated successfully!"
            /\ gens' = RemoveAt(MarkOlder(gens, g), g)
       ELSE /\ toast' = "Failed to generate PBR textures"
            /\ gens' = RemoveAt(gens, g)
            /\ UNCHANGED pbrTextures
    /\ isGenerating' = FALSE
    /\ UNCHANGED <<uploadedImage, aoIntensity, roughnessIntensity,
                   metallicIntensity, normalStrength, readers, started, run>>

Next ==
    \/ \E file \in Files : handleFileUpload(file)
    \/ \E result \in DataUrls : readerOnload(result)
    \/ regenerateTextures
    \/ clearAll
    \/ \E n \in MovedSliders : \E v \in SliderValues(n) :
            setSlider(n, v)
    \/ \E g \in 1..MaxGens : \E failAt \in FailurePoints :
            imgOnload(g, failAt)
    \/ \E g \in 1..MaxGens : imgOnerror(g)
    \/ \E g \in 1..MaxGens : resume(g)

Spec == Init /\ [][Next]_vars

----------------------------------------------------------------------------
(* The resize step, pbrGenerator.ts:204-216 *)

\* pbrGenerator.ts:205
maxSize == 1024

\* JavaScript numbers are IEEE-754 doubles with a 53-bit significand
SignificandBits == 53

RECURSIVE Pow2(_)
Pow2(n) == IF n = 0 THEN 1 ELSE 2 * Pow2(n - 1)

\* floor(log2(n)) for n >= 1
Log2Floor(n) == CHOOSE e \in 0..30 : Pow2(e) <= n /\ n < Pow2(e + 1)

\* 2^n modulo b
RECURSIVE Pow2Mod(_, _)
Pow2Mod(n, b) == IF n = 0 THEN 1 % b ELSE (2 * Pow2Mod(n - 1, b)) % b

\* Math.floor(a * (maxSize / b)) as the doubles compute it, for 1 <= a <= b
\* and b > maxSize.  Exactly, a * maxSize / b = T + f / b.  The quotient
\* maxSize / b is rounded to 53 bits and so is the product, which moves the
\* result by less than 2^-42: the floor is T unless f = 0.  When f = 0 the
\* product is T exactly if the quotient was exact or rounded up, and it is
\* T * (1 - r / 2^(e+53)) if the quotient was rounded down, r being the
\* remainder of 2^(e+53) by b and 2^e <= b < 2^(e+1).  That product rounds
\* back to T when the deficit is at most half the spacing of the doubles
\* below T, and to the double below T otherwise, whose floor is T - 1.
FloorOfProduct(a, b) ==
    LET T == (a * maxSize) \div b
        f == (a * maxSize) % b
        e == Log2Floor(b)
        r == Pow2Mod(e + SignificandBits, b)
        k == Log2Floor(T)
        halfSpacing == IF T = Pow2(k) THEN Pow2(e + k - 1) ELSE Pow2(e + k)
    IN  IF f # 0 \/ b = Pow2(e) THEN T
        ELSE IF 2 * r > b THEN T
        ELSE IF T * r > halfSpacing THEN T - 1
        ELSE T

\* pbrGenerator.ts:206-213.  Math.min(maxSize / width, maxSize / height) is
\* the quotient by the larger of the two: division by a larger number gives
\* a smaller or equal double.
Resize(imgWidth, imgHeight) ==
    IF imgWidth > maxSize \/ imgHeight > maxSize
    THEN LET larger == IF imgWidth >= imgHeight THEN imgWidth ELSE imgHeight
         IN  [width  |-> FloorOfProduct(imgWidth, larger),
              height |-> FloorOfProduct(imgHeight, larger)]
    ELSE [width |-> imgWidth, height |-> imgHeight]

\* new Uint8ClampedArray(width * height * 4), pbrGenerator.ts:43, 80, 116, 144
BufferLength(width, height) == width * height * 4

\* aoCanvas takes the dimensions of the image instead of the resized ones
SizeOfNative(m, resized, img) ==
    IF m = "ao" THEN [width |-> img.width, height |-> img.height]
    ELSE [width |-> resized.width, height |-> resized.height]

\* The canvas of map m: canvas.width = width, canvas.height = height with
\* the resized dimensions (pbrGenerator.ts:227-228, 235-236, 245-246,
\* 255-256, 265-266); img is the decoded image.
SizeOf(m, resized, img) == [width |-> resized.width, height |-> resized.height]

\* The sizes img.onload gives to its canvases and buffers
\* (pbrGenerator.ts:206-270): the source canvas and the pixels read back
\* from it, the canvas of each map, and for each derived map the buffer its
\* generator returns.  getImageData throws an IndexSizeError when the width
\* or the height is 0, and the handler rejects.
CanvasSizes(imgWidth, imgHeight) ==
    LET img == [width |-> imgWidth, height |-> imgHeight]
        r == Resize(imgWidth, imgHeight)
    IN  IF r.width = 0 \/ r.height = 0
        THEN [status |-> "rejected", width |-> r.width, height |-> r.height]
        ELSE [status |-> "resolved", width |-> r.width, height |-> r.height,
              srcData |-> BufferLength(r.width, r.height),
              canvas |-> [m \in MapNames |-> SizeOf(m, r, img)],
              data |-> [m \in DerivedMaps |-> BufferLength(r.width, r.height)]]

\* Source dimensions of SpecResize: the powers of two up to 2^MaxLog, the
\* multiples of 187 up to MaxMult * 187 (561 and 1122 are among them), and
\* the neighbours of maxSize.
MaxLog == 11
MaxMult == 8

SourceDims ==
    {Pow2(k) : k \in 0..MaxLog} \cup {187 * k : k \in 1..MaxMult}
        \cup {maxSize - 1, maxSize + 1}

InitResize ==
    /\ InitApp
    /\ \E w \in SourceDims : \E h \in SourceDims :
          run = [phase |-> "loaded", width |-> w, height |-> h]

\* img.onload up to the canvases: the sizes only
resizeAndAllocate ==
    /\ run.phase = "loaded"
    /\ run' = [phase |-> "done", width |-> run.width, height |-> run.height,
               out |-> CanvasSizes(run.width, run.height)]
    /\ UNCHANGED appVars

\* another image is loaded
nextImage ==
    /\ run.phase = "done"
    /\ \E w \in SourceDims : \E h \in SourceDims :
          run' = [phase |-> "loaded", width |-> w, height |-> h]
    /\ UNCHANGED appVars

NextResize == resizeAndAllocate \/ nextImage

SpecResize == InitResize /\ [][NextResize]_vars

----------------------------------------------------------------------------
(* Pixel buffers and the map generators, pbrGenerator.ts:16-189 *)

\* A Uint8ClampedArray is a sequence of bytes; JavaScript index i is index
\* i + 1 here.  Reading outside the array gives undefined, and arithmetic
\* on undefined gives NaN.  Undefined stands for both where the number
\* would otherwise be a byte or a sum that is never negative.
Undefined == -1

ElementAt(data, idx) ==
    IF idx + 1 \in DOMAIN data THEN data[idx + 1] ELSE Undefined

\* pbrGenerator.ts:20-23
getPixel(data, width, x, y) ==
    LET idx == (y * width + x) * 4
    IN  <<ElementAt(data, idx), ElementAt(data, idx + 1),
          ElementAt(data, idx + 2), ElementAt(data, idx + 3)>>

\* Numbers that are not integers are kept exactly, as q + r / d with
\* 0 <= r < d, or as NaN.
Exact(n, d) == [q |-> n \div d, r |-> n % d, d |-> d]
NaN == [q |-> 0, r |-> 0, d |-> 0]

\* pbrGenerator.ts:37-39
clamp(value, min, max) ==
    LET upper == IF max < value THEN max ELSE value
    IN  IF min > upper THEN min ELSE upper

\* clamp(value, 0, 255) for a number that is not an integer.  Math.min and
\* Math.max return NaN when an argument is NaN.
clampByte(value) ==
    IF value = NaN THEN NaN
    ELSE IF value.q < 0 THEN Exact(0, 1)
    ELSE IF value.q >= 255 THEN Exact(255, 1)
    ELSE value

\* The conversion of a number stored into a Uint8ClampedArray: NaN is
\* stored as 0, other numbers are clamped to 0..255 and rounded to the
\* nearest integer, halfway cases to the even one.
ToUint8Clamp(value) ==
    IF value = NaN THEN 0
    ELSE LET v == clampByte(value)
         IN  IF 2 * v.r < v.d THEN v.q
             ELSE IF 2 * v.r > v.d THEN v.q + 1
             ELSE IF v.q % 2 = 0 THEN v.q ELSE v.q + 1

\* the default of the parameter a of setPixel, which the generators never
\* pass (pbrGenerator.ts:25)
DefaultAlpha == 255

\* the green channel is stored from another number than red and blue
setPixelTinted(r, g, b) ==
    <<ToUint8Clamp(r),
      ToUint8Clamp(IF g = NaN THEN g ELSE [g EXCEPT !.q = g.q + 1]),
      ToUint8Clamp(b), DefaultAlpha>>

\* pbrGenerator.ts:25-31: the four bytes stored for one pixel
setPixel(r, g, b) ==
    <<ToUint8Clamp(r), ToUint8Clamp(g), ToUint8Clamp(b), DefaultAlpha>>

\* pbrGenerator.ts:33-35, in thousandths: 0.299 r + 0.587 g + 0.114 b
grayscale(r, g, b) ==
    IF Undefined \in {r, g, b} THEN Undefined
    ELSE 299 * r + 587 * g + 114 * b

Abs(n) == IF n < 0 THEN -n ELSE n

\* Math.abs(a - b)
AbsDiff(a, b) == IF Undefined \in {a, b} THEN Undefined ELSE Abs(a - b)

RECURSIVE Sum(_)
Sum(s) == IF s = <<>> THEN 0 ELSE Head(s) + Sum(Tail(s))

\* the sum of numbers that are not negative; NaN when one of them is
RECURSIVE SumSeq(_)
SumSeq(s) ==
    IF s = <<>> THEN 0
    ELSE LET rest == SumSeq(Tail(s))
         IN  IF Undefined \in {Head(s), rest} THEN Undefined
             ELSE Head(s) + rest

\* the pixels of a width x height image in the order of the loops
\* for y ... for x ..., as <<x, y>>
PixelOrder(width, height) ==
    [i \in 1..(width * height) |-> <<(i - 1) % width, (i - 1) \div width>>]

\* the data array assembled from the bytes stored for each pixel
RECURSIVE Flatten(_)
Flatten(pixels) ==
    IF pixels = <<>> THEN <<>> ELSE Head(pixels) \o Flatten(Tail(pixels))

\* the test accepts every position of the window
InImageAlways(nx, ny, width, height) == TRUE

\* the test of pbrGenerator.ts:58 and 95
InImage(nx, ny, width, height) ==
    nx >= 0 /\ nx < width /\ ny >= 0 /\ ny < height

\* The positions <<nx, ny>> that the loops for dy, for dx over
\* -radius..radius visit and the test lets through, in the order of the
\* loops (pbrGenerator.ts:54-58, 91-95)
Window(x, y, radius, width, height) ==
    LET side == 2 * radius + 1
        all == [i \in 1..(side * side) |->
                   <<x + ((i - 1) % side) - radius,
                     y + ((i - 1) \div side) - radius>>]
    IN  SelectSeq(all, LAMBDA c : InImage(c[1], c[2], width, height))

\* luminance of the pixel at <<x, y>>, in thousandths
LumAt(data, width, c) ==
    LET p == getPixel(data, width, c[1], c[2])
    IN  grayscale(p[1], p[2], p[3])

\* pbrGenerator.ts:47-69 for one pixel.  With intensity in units of
\* 1 / ParamScale, and contrast and lum in thousandths,
\*   255 - (contrast / count) * intensity * 2 - (255 - lum) * 0.3
\* is n / (10000 * count) with n as below (ParamScale * 1000 / 2 = 10000).
aoContrast(srcData, width, height, x, y) ==
    LET lum == LumAt(srcData, width, <<x, y>>)
        win == Window(x, y, 2, width, height)
    IN  SumSeq([i \in 1..Len(win) |->
                   AbsDiff(lum, LumAt(srcData, width, win[i]))])

\* the contrast term is added instead of subtracted
aoFormulaBrightening(lum, contrast, count, intensity) ==
    IF contrast = Undefined THEN NaN
    ELSE clampByte(Exact(2550000 * count + contrast * intensity
                            - 3 * count * (255000 - lum),
                         10000 * count))

\* pbrGenerator.ts:67-69
aoFormula(lum, contrast, count, intensity) ==
    IF contrast = Undefined THEN NaN
    ELSE clampByte(Exact(2550000 * count - contrast * intensity
                            - 3 * count * (255000 - lum),
                         10000 * count))

aoValue(srcData, width, height, x, y, intensity) ==
    aoFormula(LumAt(srcData, width, <<x, y>>),
              aoContrast(srcData, width, height, x, y),
              Len(Window(x, y, 2, width, height)), intensity)

aoPixel(srcData, width, height, x, y, intensity) ==
    LET value == aoValue(srcData, width, height, x, y, intensity)
    IN  setPixel(value, value, value)

\* pbrGenerator.ts:42-76
generateAO(srcData, width, height, intensity) ==
    LET order == PixelOrder(width, height)
    IN  Flatten([i \in 1..Len(order) |->
                    aoPixel(srcData, width, height,
                            order[i][1], order[i][2], intensity)])

\* pbrGenerator.ts:84-105 for one pixel:
\*   (variance / count) * intensity * 0.5 + (255 - lum) * 0.3
\* is n / (10000 * count) with n as below.
roughnessVariance(srcData, width, height, x, y) ==
    LET p == getPixel(srcData, width, x, y)
        win == Window(x, y, 1, width, height)
    IN  SumSeq([i \in 1..Len(win) |->
                   LET n == getPixel(srcData, width, win[i][1], win[i][2])
                   IN  SumSeq(<<AbsDiff(p[1], n[1]), AbsDiff(p[2], n[2]),
                                AbsDiff(p[3], n[3])>>)])

\* the variance term is left out of the roughness
roughnessValueOfLumaOnly(srcData, width, height, x, y, intensity) ==
    LET lum == LumAt(srcData, width, <<x, y>>)
        variance == roughnessVariance(srcData, width, height, x, y)
        count == Len(Window(x, y, 1, width, height))
    IN  IF variance = Undefined THEN NaN
        ELSE clampByte(Exact(3 * count * (255000 - lum), 10000 * count))

\* pbrGenerator.ts:103-105
roughnessValue(srcData, width, height, x, y, intensity) ==
    LET lum == LumAt(srcData, width, <<x, y>>)
        variance == roughnessVariance(srcData, width, height, x, y)
        count == Len(Window(x, y, 1, width, height))
    IN  IF variance = Undefined THEN NaN
        ELSE clampByte(Exact(250 * variance * intensity
                                + 3 * count * (255000 - lum),
                             10000 * count))

roughnessPixel(srcData, width, height, x, y, intensity) ==
    LET value == roughnessValue(srcData, width, height, x, y, intensity)
    IN  setPixel(value, value, value)

\* pbrGenerator.ts:79-112
generateRoughness(srcData, width, height, intensity) ==
    LET order == PixelOrder(width, height)
    IN  Flatten([i \in 1..Len(order) |->
                    roughnessPixel(srcData, width, height,
                                   order[i][1], order[i][2], intensity)])

\* (a * b) \div d and (a * b) % d for a, b >= 0 and d > 0, by halving b,
\* so that no intermediate result exceeds 3 * d + a
RECURSIVE MulDivMod(_, _, _)
MulDivMod(a, b, d) ==
    IF b = 0 THEN [q |-> 0, r |-> 0, d |-> d]
    ELSE LET h == MulDivMod(a, b \div 2, d)
             t == 2 * h.r + (b % 2) * (a % d)
         IN  [q |-> 2 * h.q + (b % 2) * (a \div d) + t \div d,
              r |-> t % d, d |-> d]

Max3(a, b, c) ==
    LET m == IF a >= b THEN a ELSE b IN IF m >= c THEN m ELSE c
Min3(a, b, c) ==
    LET m == IF a <= b THEN a ELSE b IN IF m <= c THEN m ELSE c

\* the saturation term is added: (lum * intensity) * (1 + saturation * 0.5)
\* is lum * intensity * (3 * max - min) / (2 * max)
metallicValueFavouringColour(r, g, b, intensity) ==
    LET lum == grayscale(r, g, b)
        max == Max3(r, g, b)
        min == Min3(r, g, b)
    IN  IF lum = Undefined THEN NaN
        ELSE IF max = 0
        THEN clampByte(Exact(lum * intensity, 20000))
        ELSE clampByte(MulDivMod(lum * intensity, 3 * max - min, 40000 * max))

\* pbrGenerator.ts:120-133 for one pixel.  With saturation
\* (max - min) / max, (lum * intensity) * (1 - saturation * 0.5) is
\* lum * intensity * (max + min) / (2 * max), and with lum in thousandths
\* and intensity in units of 1 / ParamScale the divisor is 40000 * max.
metallicValue(r, g, b, intensity) ==
    LET lum == grayscale(r, g, b)
        max == Max3(r, g, b)
        min == Min3(r, g, b)
    IN  IF lum = Undefined THEN NaN
        ELSE IF max = 0
        THEN clampByte(Exact(lum * intensity, 20000))
        ELSE clampByte(MulDivMod(lum * intensity, max + min, 40000 * max))

metallicPixel(srcData, width, x, y, intensity) ==
    LET p == getPixel(srcData, width, x, y)
        value == metallicValue(p[1], p[2], p[3], intensity)
    IN  setPixel(value, value, value)

\* pbrGenerator.ts:115-140
generateMetallic(srcData, width, height, intensity) ==
    LET order == PixelOrder(width, height)
    IN  Flatten([i \in 1..Len(order) |->
                    metallicPixel(srcData, width,
                                  order[i][1], order[i][2], intensity)])

\* pbrGenerator.ts:17-18
SOBEL_X == <<<<-1, 0, 1>>, <<-2, 0, 2>>, <<-1, 0, 1>>>>
SOBEL_Y == <<<<-1, -2, -1>>, <<0, 0, 0>>, <<1, 2, 1>>>>

\* the positions are taken as they come, without clamp
SobelWindowUnclamped(x, y, width, height) ==
    [i \in 1..9 |-> <<x + ((i - 1) % 3) - 1, y + ((i - 1) \div 3) - 1>>]

\* The positions <<nx, ny>> read by the loops for ky, for kx of
\* pbrGenerator.ts:162-165, in the order of the loops
SobelWindow(x, y, width, height) ==
    [i \in 1..9 |-> <<clamp(x + ((i - 1) % 3) - 1, 0, width - 1),
                      clamp(y + ((i - 1) \div 3) - 1, 0, height - 1)>>]

\* heightMap[ny * width + nx], pbrGenerator.ts:147-153 and 166, in units
\* of 1 / 255000: the height is lum / 255 and lum is in thousandths.  The
\* rounding of the heights to Float32 is not modelled.
HeightAt(srcData, width, height, nx, ny) ==
    LET idx == ny * width + nx
    IN  IF idx \in 0..(width * height - 1)
        THEN LumAt(srcData, width, <<idx % width, idx \div width>>)
        ELSE Undefined

\* pbrGenerator.ts:158-171 for one pixel: dx and dy in units of
\* 1 / 255000; nan tells that a height was read outside the height map.
Gradient(srcData, width, height, x, y) ==
    LET win == SobelWindow(x, y, width, height)
        h == [i \in 1..9 |->
                 HeightAt(srcData, width, height, win[i][1], win[i][2])]
    IN  [dx  |-> Sum([i \in 1..9 |->
                    h[i] * SOBEL_X[((i - 1) \div 3) + 1][((i - 1) % 3) + 1]]),
         dy  |-> Sum([i \in 1..9 |->
                    h[i] * SOBEL_Y[((i - 1) \div 3) + 1][((i - 1) % 3) + 1]]),
         nan |-> \E i \in 1..9 : h[i] = Undefined]

\* Natural numbers of any size, as sequences of digits in base Base, the
\* least significant first and the most significant not 0: the squares
\* under the square root of pbrGenerator.ts:179 exceed 32 bits.
Base == 10000

RECURSIVE BigOf(_)
BigOf(n) == IF n = 0 THEN <<>> ELSE <<n % Base>> \o BigOf(n \div Base)

RECURSIVE BigAddCarry(_, _, _)
BigAddCarry(a, b, carry) ==
    IF a = <<>> /\ b = <<>> THEN BigOf(carry)
    ELSE LET da == IF a = <<>> THEN 0 ELSE Head(a)
             db == IF b = <<>> THEN 0 ELSE Head(b)
             t == da + db + carry
         IN  <<t % Base>> \o
                 BigAddCarry(IF a = <<>> THEN a ELSE Tail(a),
                             IF b = <<>> THEN b ELSE Tail(b), t \div Base)

BigAdd(a, b) == BigAddCarry(a, b, 0)

\* a * k for 0 < k <= 2^16
RECURSIVE BigScaleCarry(_, _, _)
BigScaleCarry(a, k, carry) ==
    IF a = <<>> THEN BigOf(carry)
    ELSE LET t == Head(a) * k + carry
         IN  <<t % Base>> \o BigScaleCarry(Tail(a), k, t \div Base)

BigScale(a, k) == IF k = 0 THEN <<>> ELSE BigScaleCarry(a, k, 0)

RECURSIVE BigMul(_, _)
BigMul(a, b) ==
    IF a = <<>> \/ b = <<>> THEN <<>>
    ELSE BigAdd(BigScale(b, Head(a)), <<0>> \o BigMul(Tail(a), b))

\* -1, 0 or 1 as a is less than, equal to or greater than b
RECURSIVE BigCompare(_, _)
BigCompare(a, b) ==
    IF Len(a) # Len(b) THEN (IF Len(a) < Len(b) THEN -1 ELSE 1)
    ELSE IF a = <<>> THEN 0
    ELSE LET i == Len(a)
         IN  IF a[i] # b[i] THEN (IF a[i] < b[i] THEN -1 ELSE 1)
             ELSE BigCompare(SubSeq(a, 1, i - 1), SubSeq(b, 1, i - 1))

\* The normal vector of pbrGenerator.ts:174-176 in units of
\* 1 / (255000 * ParamScale): <<-dx * strength, -dy * strength, 1>>
NormalVector(gradient, strength) ==
    <<-gradient.dx * strength, -gradient.dy * strength, 255000 * ParamScale>>

BigSquare(n) == BigMul(BigOf(Abs(n)), BigOf(Abs(n)))

\* -1, 0 or 1 as c * len is less than, equal to or greater than 255 * p,
\* len being the length of pbrGenerator.ts:179, from len2 = len^2 and
\* p2 = (255 * p)^2: by the signs, and by c^2 * len2 and p2 when the signs
\* agree
CompareScaled(c, len2, p, p2) ==
    IF c > 0 /\ p < 0 THEN 1
    ELSE IF c < 0 /\ p > 0 THEN -1
    ELSE LET squares == BigCompare(BigScale(len2, c * c), p2)
         IN  IF c >= 0 /\ p >= 0 THEN squares ELSE -squares

\* the largest c in lo..(hi - 1) with c * len <= 255 * p, when it holds for
\* lo and fails for hi
RECURSIVE LargestScale(_, _, _, _, _)
LargestScale(lo, hi, len2, p, p2) ==
    IF hi - lo = 1 THEN lo
    ELSE LET mid == (lo + hi) \div 2
         IN  IF CompareScaled(mid, len2, p, p2) <= 0
             THEN LargestScale(mid, hi, len2, p, p2)
             ELSE LargestScale(lo, mid, len2, p, p2)

\* pbrGenerator.ts:180-182, (p / len + 1) * 0.5 * 255, which is at least
\* (c + 255) / 2 exactly when c * len <= 255 * p.  The result is exact
\* when it is a multiple of 1 / 2; otherwise it is irrational or has a
\* large denominator, and the middle of the interval of width 1 / 2 that
\* holds it stands for it, which is stored as the same byte.
Encode(p, len2) ==
    LET p2 == BigScale(BigSquare(p), 255 * 255)
        c == LargestScale(-255, 256, len2, p, p2)
    IN  IF CompareScaled(c, len2, p, p2) = 0 THEN Exact(c + 255, 2)
        ELSE Exact(2 * (c + 255) + 1, 4)

\* pbrGenerator.ts:173-184: the four bytes stored for a gradient
NormalBytes(gradient, strength) ==
    LET v == NormalVector(gradient, strength)
        len2 == BigAdd(BigSquare(v[1]),
                       BigAdd(BigSquare(v[2]), BigSquare(v[3])))
    IN  IF gradient.nan THEN setPixel(NaN, NaN, NaN)
        ELSE setPixel(Encode(v[1], len2), Encode(v[2], len2),
                      Encode(v[3], len2))

\* pbrGenerator.ts:158-184 for one pixel: the four bytes stored
normalPixel(srcData, width, height, x, y, strength) ==
    NormalBytes(Gradient(srcData, width, height, x, y), strength)

\* pbrGenerator.ts:143-189
generateNormal(srcData, width, height, strength) ==
    LET order == PixelOrder(width, height)
    IN  Flatten([i \in 1..Len(order) |->
                    normalPixel(srcData, width, height,
                                order[i][1], order[i][2], strength)])

\* img.onload from the pixels read back from the source canvas to the five
\* canvases, pbrGenerator.ts:222-270.  The albedo canvas is drawn from the
\* image as the source canvas is.
generateMaps(srcData, width, height, options) ==
    [albedo    |-> srcData,
     ao        |-> generateAO(srcData, width, height, options.aoIntensity),
     roughness |-> generateRoughness(srcData, width, height,
                                     options.roughnessIntensity),
     metallic  |-> generateMetallic(srcData, width, height,
                                    options.metallicIntensity),
     normal    |-> generateNormal(srcData, width, height,
                                  options.normalStrength)]

\* Source images of SpecPix: every image of at most MaxPixels pixels over
\* Palette, and the one-colour and the checkerboard images over Palette
\* of up to MaxSide x MaxSide pixels.
MaxPixels == 3
MaxSide == 5

Palette ==
    {<<0, 0, 0, 255>>, <<255, 255, 255, 255>>, <<128, 128, 128, 255>>,
     <<200, 100, 50, 255>>}

ImageOf(width, height, colourAt) ==
    [width |-> width, height |-> height,
     data |-> Flatten([i \in 1..(width * height) |-> colourAt[i]])]

SmallImages ==
    UNION {{ImageOf(w, h, f) : f \in [1..(w * h) -> Palette]} :
              <<w, h>> \in {d \in (1..MaxPixels) \X (1..MaxPixels) :
                               d[1] * d[2] <= MaxPixels}}

Checkerboard(width, height, even, odd) ==
    ImageOf(width, height,
            [i \in 1..(width * height) |->
                IF (((i - 1) % width) + ((i - 1) \div width)) % 2 = 0
                THEN even ELSE odd])

PatternImages ==
    {Checkerboard(w, h, c1, c2) :
        w \in 1..MaxSide, h \in 1..MaxSide, c1 \in Palette, c2 \in Palette}

SourceImages == SmallImages \cup PatternImages

\* the options of a generation: the sliders all at their minimum, all at
\* their default or all at their maximum
OptionChoices == {SliderMin, SliderDefault, SliderMax}

InitPix ==
    /\ InitApp
    /\ \E image \in SourceImages : \E options \in OptionChoices :
          run = [phase |-> "decoded", image |-> image, options |-> options]

\* img.onload for an image that needs no resize
generate ==
    /\ run.phase = "decoded"
    /\ run' = [phase |-> "done", image |-> run.image, options |-> run.options,
               out |-> generateMaps(run.image.data, run.image.width,
                                    run.image.height, run.options)]
    /\ UNCHANGED appVars

NextPix == generate

SpecPix == InitPix /\ [][NextPix]_vars

\* Source images of SpecMetal: two pixels side by side that have the same
\* luminance.  299 r + 587 g + 114 b is the same for a colour and for the
\* colour moved by a multiple of <<11, 1, -34>> or of <<1, -31, 157>>.
MaxShift == 3

LumaShifts ==
    {<<11 * k + j, k - 31 * j, 157 * j - 34 * k>> :
        k \in (-MaxShift)..MaxShift, j \in -1..1}

BaseColours ==
    {<<0, 0, 0>>, <<64, 64, 64>>, <<128, 128, 128>>, <<192, 192, 192>>,
     <<255, 255, 255>>, <<200, 100, 50>>}

MetalColours ==
    {p \in {<<c[1] + s[1], c[2] + s[2], c[3] + s[3], 255>> :
                c \in BaseColours, s \in LumaShifts} :
        \A k \in 1..3 : p[k] \in 0..255}

\* the values of the metallicIntensity slider, App.tsx:324-330
MetallicIntensities ==
    {SliderMin.metallicIntensity + k * SliderStep.metallicIntensity :
        k \in 0..((SliderMax.metallicIntensity - SliderMin.metallicIntensity)
                     \div SliderStep.metallicIntensity)}

InitMetal ==
    /\ InitApp
    /\ \E a \in MetalColours : \E b \in MetalColours :
       \E intensity \in MetallicIntensities :
          /\ grayscale(a[1], a[2], a[3]) = grayscale(b[1], b[2], b[3])
          /\ run = [phase |-> "decoded",
                    image |-> ImageOf(2, 1, <<a, b>>),
                    options |-> [SliderDefault EXCEPT
                                    !.metallicIntensity = intensity]]

SpecMetal == InitMetal /\ [][NextPix]_vars

----------------------------------------------------------------------------
(* The generators pixel by pixel, pbrGenerator.ts:42-189.  Each generator  *)
(* is a loop over the pixels that reads srcData and stores into the        *)
(* dstData it allocated.  The code runs the loops one after the other      *)
(* (pbrGenerator.ts:233-263); here an iteration of any loop that has not   *)
(* finished may come next, the order of the code being one of the orders.  *)

MaxStepPixels == 2

StepImages ==
    UNION {{ImageOf(w, h, f) : f \in [1..(w * h) -> Palette]} :
              <<w, h>> \in {d \in (1..MaxStepPixels) \X (1..MaxStepPixels) :
                               d[1] * d[2] <= MaxStepPixels}}

\* new Uint8ClampedArray(n), new Float32Array(n): n zeros
Zeros(n) == [i \in 1..n |-> 0]

Buffers == {"src"} \cup DerivedMaps

\* generateAO stores into the buffer it reads from
TargetInPlace(m) == IF m = "ao" THEN "src" ELSE m

\* the buffer the generator of map m stores into: the dstData it allocated
\* (pbrGenerator.ts:43, 80, 116, 144) and returns
Target(m) == m

\* the assignments of setPixel at idx = (y * width + x) * 4,
\* pbrGenerator.ts:26-30
Store(data, width, x, y, bytes) ==
    LET idx == (y * width + x) * 4
    IN  [i \in DOMAIN data |->
            IF i \in (idx + 1)..(idx + 4) THEN bytes[i - idx] ELSE data[i]]

\* the gradient of pbrGenerator.ts:158-171 read from the height map
GradientOfHeights(heightMap, width, height, x, y) ==
    LET win == SobelWindow(x, y, width, height)
        h == [i \in 1..9 |->
                 ElementAt(heightMap, win[i][2] * width + win[i][1])]
    IN  [dx  |-> Sum([i \in 1..9 |->
                    h[i] * SOBEL_X[((i - 1) \div 3) + 1][((i - 1) % 3) + 1]]),
         dy  |-> Sum([i \in 1..9 |->
                    h[i] * SOBEL_Y[((i - 1) \div 3) + 1][((i - 1) % 3) + 1]]),
         nan |-> \E i \in 1..9 : h[i] = Undefined]

\* The field sequential is history for the properties: the maps the loops
\* produce in the order of the code.
InitSteps ==
    /\ InitApp
    /\ \E image \in StepImages :
          LET n == image.width * image.height
          IN  run = [phase |-> "generating", image |-> image,
                     options |-> SliderDefault,
                     buf |-> [b \in Buffers |->
                                 IF b = "src" THEN image.data
                                 ELSE Zeros(BufferLength(image.width,
                                                         image.height))],
                     heightMap |-> Zeros(n),
                     pos |-> [ao |-> 1, roughness |-> 1, metallic |-> 1,
                              heightMap |-> 1, normal |-> 1],
                     sequential |-> generateMaps(image.data, image.width,
                                                 image.height, SliderDefault)]

StepPixels == run.image.width * run.image.height

\* the loop named l has an iteration left, and <<x, y>> is its pixel
Iterating(l) == run.phase = "generating" /\ run.pos[l] <= StepPixels
Current(l) == PixelOrder(run.image.width, run.image.height)[run.pos[l]]

\* one iteration of a loop for y, for x that ends in setPixel(dstData, ...)
StoreStep(m, bytes) ==
    /\ run' = [run EXCEPT
                  !.buf[Target(m)] =
                      Store(@, run.image.width, Current(m)[1], Current(m)[2],
                            bytes),
                  !.pos[m] = @ + 1]
    /\ UNCHANGED appVars

\* pbrGenerator.ts:47-71
aoStep ==
    /\ Iterating("ao")
    /\ StoreStep("ao",
           aoPixel(run.buf.src, run.image.width, run.image.height,
                   Current("ao")[1], Current("ao")[2],
                   run.options.aoIntensity))

\* pbrGenerator.ts:84-107
roughnessStep ==
    /\ Iterating("roughness")
    /\ StoreStep("roughness",
           roughnessPixel(run.buf.src, run.image.width, run.image.height,
                          Current("roughness")[1], Current("roughness")[2],
                          run.options.roughnessIntensity))

\* pbrGenerator.ts:120-135
metallicStep ==
    /\ Iterating("metallic")
    /\ StoreStep("metallic",
           metallicPixel(run.buf.src, run.image.width,
                         Current("metallic")[1], Current("metallic")[2],
                         run.options.metallicIntensity))

\* pbrGenerator.ts:150-151: the first loop of generateNormal
heightMapStep ==
    /\ Iterating("heightMap")
    /\ run' = [run EXCEPT
                  !.heightMap[run.pos.heightMap] =
                      LumAt(run.buf.src, run.image.width, Current("heightMap")),
                  !.pos.heightMap = @ + 1]
    /\ UNCHANGED appVars

\* pbrGenerator.ts:158-184: the second loop of generateNormal, which starts
\* when the first has ended
sobelStep ==
    /\ Iterating("normal")
    /\ run.pos.heightMap > StepPixels
    /\ StoreStep("normal",
           NormalBytes(GradientOfHeights(run.heightMap, run.image.width,
                                         run.image.height,
                                         Current("normal")[1],
                                         Current("normal")[2]),
                       run.options.normalStrength))

NextSteps ==
    aoStep \/ roughnessStep \/ metallicStep \/ heightMapStep \/ sobelStep

SpecSteps == InitSteps /\ [][NextSteps]_vars

----------------------------------------------------------------------------
(* Properties of the App *)

\* C1: when the result of a generation arrives after a generation started
\* later has already delivered its own, the displayed set stays that of the
\* newer one: the older result is dropped.
C1_NewerSupersedes ==
    [][\A g \in 1..MaxGens :
          (resume(g) /\ gens[g].newerDone) => pbrTextures' = pbrTextures]_vars

\* C2 as stated: when a generation fails, the displayed set is the one that
\* was displayed when that generation started.
C2_FailureKeepsStartSet ==
    [][\A g \in 1..MaxGens :
          (resume(g) /\ gens[g].status = "rejected")
              => pbrTextures' = gens[g].startPbr]_vars

\* C2 as amended: no step of a failing generation (the rejection of its
\* promise, the catch and finally blocks) changes the displayed set.
C2_FailureLeavesSetUntouched ==
    [][\A g \in 1..MaxGens :
          /\ (resume(g) /\ gens[g].status = "rejected")
                => pbrTextures' = pbrTextures
          /\ (g \in Pending /\ g \in DOMAIN gens' /\ gens'[g].status = "rejected")
                => pbrTextures' = pbrTextures]_vars

\* a failure has been handled while a texture set was displayed
C2_Witness ==
    /\ toast = "Failed to generate PBR textures"
    /\ pbrTextures # NoTextures

IsCompleteSet(t) ==
    /\ DOMAIN t = MapNames
    /\ \E src \in DataUrls :
          \A m \in MapNames : t[m].map = m /\ t[m].src = src

\* C3: a settled promise of generatePBRTextures holds either the five maps of
\* its own invocation or nothing, and the displayed set is null or the
\* complete set of one invocation.
C3_AllOrNothing ==
    /\ \A g \in GenIds :
          CASE gens[g].status = "resolved" ->
                 /\ IsCompleteSet(gens[g].value)
                 /\ \A m \in MapNames :
                       gens[g].value[m] = EncodedMap(m, gens[g].src, gens[g].options)
            [] OTHER -> gens[g].value = NoTextures
    /\ pbrTextures # NoTextures => IsCompleteSet(pbrTextures)

\* the onload handler of a decodable image threw, next to a displayed set
C3_Witness ==
    /\ pbrTextures # NoTextures
    /\ \E g \in GenIds : gens[g].status = "rejected" /\ Decodable(gens[g].src)


----------------------------------------------------------------------------
(* Properties of the resize step *)

ResizeDone == run.phase = "done" /\ run.out.status = "resolved"

\* C4: for every successfully processed image the five output canvases
\* have the same width and the same height, which are the resized source
\* dimensions (those of the source canvas the pixels were read from), and
\* the buffer of each derived map holds exactly width * height * 4 samples.
C4_SameDimensions ==
    ResizeDone =>
        /\ \A m \in MapNames :
              /\ run.out.canvas[m].width = run.out.width
              /\ run.out.canvas[m].height = run.out.height
        /\ \A m \in DerivedMaps :
              /\ run.out.data[m] = run.out.width * run.out.height * 4
              /\ run.out.data[m] = run.out.srcData
        /\ run.out.width <= maxSize /\ run.out.height <= maxSize
        /\ (run.width <= maxSize /\ run.height <= maxSize) =>
              (run.out.width = run.width /\ run.out.height = run.height)

C4_Witness ==
    /\ ResizeDone
    /\ run.width > maxSize
    /\ run.out.width < run.width
    /\ run.out.height > 1

\* C5: if the source width or height exceeds 1024, each dimension becomes
\* the floor of its product with min(1024 / width, 1024 / height), and
\* otherwise the dimensions are kept; both results are at most 1024,
\* 2048x1024 becomes 1024x512 and 512x256 stays 512x256.
ExactFloor(d, imgWidth, imgHeight) ==
    (d * maxSize) \div (IF imgWidth >= imgHeight THEN imgWidth ELSE imgHeight)

C5_ResizeRule ==
    run.phase = "done" =>
        /\ (run.width > maxSize \/ run.height > maxSize) =>
              /\ run.out.width = ExactFloor(run.width, run.width, run.height)
              /\ run.out.height = ExactFloor(run.height, run.width, run.height)
        /\ (run.width <= maxSize /\ run.height <= maxSize) =>
              /\ run.out.width = run.width
              /\ run.out.height = run.height
        /\ run.out.width <= maxSize /\ run.out.height <= maxSize
        /\ (run.width = 2048 /\ run.height = 1024) =>
              (run.out.width = 1024 /\ run.out.height = 512)
        /\ (run.width = 512 /\ run.height = 256) =>
              (run.out.width = 512 /\ run.out.height = 256)

----------------------------------------------------------------------------
(* Properties of the generators *)

PixDone == run.phase = "done"

\* the pixels <<x, y>> of the image of the run
Pixels == {<<x, y>> : x \in 0..(run.image.width - 1),
                      y \in 0..(run.image.height - 1)}

\* the four bytes of buffer data at pixel c
BytesAt(data, c) ==
    LET idx == (c[2] * run.image.width + c[1]) * 4
    IN  <<data[idx + 1], data[idx + 2], data[idx + 3], data[idx + 4]>>

\* C7: in the AO, roughness and metallic buffers every pixel has
\* R = G = B and alpha 255, for every source image and every parameter
\* value.
C7_GreyOpaque ==
    PixDone =>
        \A m \in {"ao", "roughness", "metallic"} :
            /\ Len(run.out[m]) = 4 * run.image.width * run.image.height
            /\ \A c \in Pixels :
                  LET b == BytesAt(run.out[m], c)
                  IN  b[1] = b[2] /\ b[2] = b[3] /\ b[4] = 255

\* a source pixel that is not gray, with AO, roughness and metallic bytes
\* that are neither 0 nor 255
C7_Witness ==
    /\ PixDone
    /\ \E c \in Pixels :
          /\ BytesAt(run.image.data, c)[1] # BytesAt(run.image.data, c)[2]
          /\ \A m \in {"ao", "roughness", "metallic"} :
                BytesAt(run.out[m], c)[1] \in 1..254

\* the positions of the square of the given radius around <<x, y>> that
\* lie in the image
InBoundsSquare(x, y, radius) ==
    {c \in ((x - radius)..(x + radius)) \X ((y - radius)..(y + radius)) :
        /\ c[1] \in 0..(run.image.width - 1)
        /\ c[2] \in 0..(run.image.height - 1)}

\* the positions of a sequence, each of them in the image and read at
\* indices of the buffer
ReadsInside(positions) ==
    \A i \in 1..Len(positions) :
        /\ positions[i][1] \in 0..(run.image.width - 1)
        /\ positions[i][2] \in 0..(run.image.height - 1)
        /\ Undefined \notin
              {getPixel(run.image.data, run.image.width,
                        positions[i][1], positions[i][2])[k] : k \in 1..4}

\* C8: for every pixel the 5x5 AO window, the 3x3 roughness window and
\* the 3x3 gradient window read only positions inside the image; the AO
\* and roughness averages divide by the number of window positions that
\* are inside the image, each counted once, which is never 0 and is 9 for
\* the 5x5 window at the corners of an image of at least 3x3 pixels.
C8_BorderHandling ==
    PixDone => \A c \in Pixels :
        LET ao == Window(c[1], c[2], 2, run.image.width, run.image.height)
            ro == Window(c[1], c[2], 1, run.image.width, run.image.height)
            so == SobelWindow(c[1], c[2], run.image.width, run.image.height)
            corner == /\ c[1] \in {0, run.image.width - 1}
                      /\ c[2] \in {0, run.image.height - 1}
        IN  /\ ReadsInside(ao) /\ ReadsInside(ro) /\ ReadsInside(so)
            /\ Len(ao) = Cardinality(InBoundsSquare(c[1], c[2], 2))
            /\ {ao[i] : i \in 1..Len(ao)} = InBoundsSquare(c[1], c[2], 2)
            /\ Len(ro) = Cardinality(InBoundsSquare(c[1], c[2], 1))
            /\ {ro[i] : i \in 1..Len(ro)} = InBoundsSquare(c[1], c[2], 1)
            /\ Len(ao) >= 1 /\ Len(ro) >= 1
            /\ (corner /\ run.image.width >= 3 /\ run.image.height >= 3)
                  => Len(ao) = 9

\* a generated image wide and high enough for a full 5x5 window in the
\* middle and a 3x3 one at the corner
C8_Witness ==
    /\ PixDone
    /\ run.image.width >= 5 /\ run.image.height >= 5
    /\ Len(Window(0, 0, 2, run.image.width, run.image.height)) = 9
    /\ Len(Window(2, 2, 2, run.image.width, run.image.height)) = 25
    /\ run.image.data[1] # run.image.data[5]

\* every pixel of the image of the run has the colour of the first one
Uniform ==
    \A c \in Pixels : BytesAt(run.image.data, c) = BytesAt(run.image.data, <<0, 0>>)

\* the bytes stored for 255 - (255 - lum) * 0.3 and for (255 - lum) * 0.3
\* after clamp, lum in thousandths
AoBiasOnly(lum) == ToUint8Clamp(clampByte(Exact(2550000 - 3 * (255000 - lum), 10000)))
RoughnessBiasOnly(lum) == ToUint8Clamp(clampByte(Exact(3 * (255000 - lum), 10000)))

\* the bytes stored for the vector (0, 0, 1): (0 + 1) * 0.5 * 255 = 127.5
\* is stored as the even neighbour 128, and (1 + 1) * 0.5 * 255 as 255
EncodedUp == <<128, 128, 255, 255>>

\* C9: for an image of one colour and every parameter setting, the
\* gradient is dx = dy = 0 at every pixel, border pixels included, the
\* normal map is the encoded vector (0, 0, 1) at every pixel, contrast and
\* variance are 0 at every pixel and the AO and roughness bytes are those
\* of clamp(255 - (255 - luma) * 0.3) and clamp((255 - luma) * 0.3).
C9_UniformInput ==
    (PixDone /\ Uniform) =>
        \A c \in Pixels :
            LET w == run.image.width
                h == run.image.height
                lum == LumAt(run.image.data, w, c)
                gradient == Gradient(run.image.data, w, h, c[1], c[2])
            IN  /\ gradient.dx = 0 /\ gradient.dy = 0 /\ ~gradient.nan
                /\ BytesAt(run.out.normal, c) = EncodedUp
                /\ aoContrast(run.image.data, w, h, c[1], c[2]) = 0
                /\ roughnessVariance(run.image.data, w, h, c[1], c[2]) = 0
                /\ BytesAt(run.out.ao, c) =
                      <<AoBiasOnly(lum), AoBiasOnly(lum), AoBiasOnly(lum), 255>>
                /\ BytesAt(run.out.roughness, c) =
                      <<RoughnessBiasOnly(lum), RoughnessBiasOnly(lum),
                        RoughnessBiasOnly(lum), 255>>

\* a generated one-colour image with border and interior pixels, of a
\* colour that is neither black nor white, with sliders off their minimum
C9_Witness ==
    /\ PixDone /\ Uniform
    /\ run.image.width >= 3 /\ run.image.height >= 3
    /\ BytesAt(run.image.data, <<0, 0>>)[1] \in 1..254
    /\ run.options.aoIntensity > 0 /\ run.options.normalStrength > 0
    /\ BytesAt(run.out.ao, <<1, 1>>)[1] \in 1..254
    /\ BytesAt(run.out.roughness, <<1, 1>>)[1] \in 1..254

\* the values of the aoIntensity slider, App.tsx:296-306
AoIntensities ==
    {SliderMin.aoIntensity + k * SliderStep.aoIntensity :
        k \in 0..((SliderMax.aoIntensity - SliderMin.aoIntensity)
                     \div SliderStep.aoIntensity)}

\* the AO byte of pixel c of the image of the run for an intensity
AoByte(c, contrast, intensity) ==
    ToUint8Clamp(aoFormula(LumAt(run.image.data, run.image.width, c), contrast,
                           Len(Window(c[1], c[2], 2, run.image.width,
                                      run.image.height)),
                           intensity))

\* C10: for the image of the run and every pixel of nonzero local
\* contrast, the AO byte generated with the aoIntensity a1 of the run is
\* at least the AO byte for every slider value a2 >= a1 and at most the
\* AO byte for every slider value a2 <= a1.
C10_AoMonotone ==
    PixDone =>
        \A c \in Pixels :
            LET contrast == aoContrast(run.image.data, run.image.width,
                                       run.image.height, c[1], c[2])
                generated == BytesAt(run.out.ao, c)[1]
            IN  contrast # 0 =>
                  \A a2 \in AoIntensities :
                      /\ run.options.aoIntensity <= a2 =>
                            AoByte(c, contrast, a2) <= generated
                      /\ a2 <= run.options.aoIntensity =>
                            generated <= AoByte(c, contrast, a2)

\* a pixel of nonzero contrast whose AO byte, generated with the default
\* intensity, is strictly between the bytes for the lowest and the
\* highest intensity
C10_Witness ==
    /\ PixDone
    /\ run.options.aoIntensity = SliderDefault.aoIntensity
    /\ \E c \in Pixels :
          LET contrast == aoContrast(run.image.data, run.image.width,
                                     run.image.height, c[1], c[2])
          IN  /\ contrast # 0
              /\ AoByte(c, contrast, SliderMax.aoIntensity)
                    < BytesAt(run.out.ao, c)[1]
              /\ BytesAt(run.out.ao, c)[1]
                    < AoByte(c, contrast, SliderMin.aoIntensity)

\* the 4x4 checkerboards of pure black and pure white
Boards ==
    {Checkerboard(4, 4, <<0, 0, 0, 255>>, <<255, 255, 255, 255>>),
     Checkerboard(4, 4, <<255, 255, 255, 255>>, <<0, 0, 0, 255>>)}

\* the image of the size of the image of the run with every pixel of gray
\* level g
Control(g) ==
    Checkerboard(run.image.width, run.image.height,
                 <<g, g, g, 255>>, <<g, g, g, 255>>)

GrayLevels == 0..255

\* the window of the given radius around pixel c lies in the image
FullWindow(c, radius) ==
    Len(Window(c[1], c[2], radius, run.image.width, run.image.height))
        = (2 * radius + 1) * (2 * radius + 1)

\* C11: for a 4x4 checkerboard of pure black and pure white generated with
\* the default parameters, every pixel whose 3x3 neighbourhood lies in the
\* image has an AO byte strictly lower and a roughness byte strictly higher
\* than the same pixel of the 4x4 image of one gray level, for every gray
\* level.  No pixel of a 4x4 image has its whole 5x5 neighbourhood in the
\* image: the AO window of these pixels is the whole image.
C11_Checkerboard ==
    (PixDone /\ run.image \in Boards /\ run.options = SliderDefault) =>
        \A c \in Pixels : FullWindow(c, 1) =>
            \A g \in GrayLevels :
                LET control == Control(g).data
                    w == run.image.width
                    h == run.image.height
                IN  /\ ~FullWindow(c, 2)
                    /\ BytesAt(run.out.ao, c)[1]
                          < aoPixel(control, w, h, c[1], c[2],
                                    SliderDefault.aoIntensity)[1]
                    /\ BytesAt(run.out.roughness, c)[1]
                          > roughnessPixel(control, w, h, c[1], c[2],
                                           SliderDefault.roughnessIntensity)[1]

\* a generated checkerboard with the default parameters: AO is black at
\* the inner pixels, and the roughness of the inner black and white pixels
\* is that of the variance 340 with and without the bias of 76.5
C11_Witness ==
    /\ PixDone /\ run.image \in Boards /\ run.options = SliderDefault
    /\ FullWindow(<<1, 1>>, 1) /\ FullWindow(<<2, 1>>, 1)
    /\ BytesAt(run.out.ao, <<1, 1>>)[1] = 0
    /\ {BytesAt(run.out.roughness, <<1, 1>>)[1],
        BytesAt(run.out.roughness, <<2, 1>>)[1]} = {170, 246}

\* the saturation of pbrGenerator.ts:124-126 as the fraction n / d
Saturation(p) ==
    LET max == Max3(p[1], p[2], p[3])
        min == Min3(p[1], p[2], p[3])
    IN  IF max = 0 THEN [n |-> 0, d |-> 1] ELSE [n |-> max - min, d |-> max]

\* the saturation of p is at least that of q
AtLeastAsSaturated(p, q) ==
    Saturation(p).n * Saturation(q).d >= Saturation(q).n * Saturation(p).d

\* the byte stored for clamp(lum * intensity * num / den, 0, 255), lum in
\* thousandths and intensity in units of 1 / ParamScale
LumaByte(lum, intensity, num, den) ==
    ToUint8Clamp(clampByte(Exact(lum * intensity * num, 20000 * den)))

\* C12: for every pixel of the generated image the metallic value is a
\* number (no division by zero, also when max(R,G,B) = 0); its byte lies
\* between the bytes of luma * intensity * 0.5 and of luma * intensity, is
\* the byte of luma * intensity for a gray pixel, and is 0 for a black
\* pixel at every intensity; and of two pixels of equal luma the one that
\* is at least as saturated has a byte that is not higher.
C12_Metallic ==
    PixDone =>
        \A c \in Pixels :
            LET p == BytesAt(run.image.data, c)
                lum == grayscale(p[1], p[2], p[3])
                i == run.options.metallicIntensity
                out == BytesAt(run.out.metallic, c)[1]
            IN  /\ metallicValue(p[1], p[2], p[3], i) # NaN
                /\ out = ToUint8Clamp(metallicValue(p[1], p[2], p[3], i))
                /\ LumaByte(lum, i, 1, 2) <= out
                /\ out <= LumaByte(lum, i, 1, 1)
                /\ Saturation(p).n = 0 => out = LumaByte(lum, i, 1, 1)
                /\ Saturation(p).n = Saturation(p).d
                      => out = LumaByte(lum, i, 1, 2)
                /\ (p[1] = 0 /\ p[2] = 0 /\ p[3] = 0) => out = 0
                /\ \A e \in Pixels :
                      LET q == BytesAt(run.image.data, e)
                      IN  (/\ grayscale(q[1], q[2], q[3]) = lum
                           /\ AtLeastAsSaturated(q, p))
                             => BytesAt(run.out.metallic, e)[1] <= out

\* two generated pixels of equal luma, one strictly more saturated than
\* the other, with a strictly lower metallic byte that is not 0
C12_Witness ==
    /\ PixDone
    /\ run.image.width = 2 /\ run.image.height = 1
    /\ LET p == BytesAt(run.image.data, <<0, 0>>)
           q == BytesAt(run.image.data, <<1, 0>>)
       IN  /\ grayscale(p[1], p[2], p[3]) = grayscale(q[1], q[2], q[3])
           /\ AtLeastAsSaturated(q, p) /\ ~AtLeastAsSaturated(p, q)
           /\ 0 < BytesAt(run.out.metallic, <<1, 0>>)[1]
           /\ BytesAt(run.out.metallic, <<1, 0>>)[1]
                 < BytesAt(run.out.metallic, <<0, 0>>)[1]

\* the four bytes of pixel number k of a buffer
PixelBytes(data, k) == SubSeq(data, 4 * k - 3, 4 * k)

\* C13: in every state of every interleaving of the four generators the
\* source buffer holds the source pixels, and the buffer of each derived
\* map holds, for the pixels its loop has passed, the bytes that the
\* generators produce in the order of the code, and zeros for the others:
\* no generator stores into the source or into the buffer of another one,
\* and the four outputs do not depend on the order.
C13_Independent ==
    run.phase = "generating" =>
        /\ run.buf.src = run.image.data
        /\ \A m \in DerivedMaps :
              /\ Len(run.buf[m]) = 4 * StepPixels
              /\ \A k \in 1..StepPixels :
                    PixelBytes(run.buf[m], k) =
                        IF k < run.pos[m]
                        THEN PixelBytes(run.sequential[m], k)
                        ELSE <<0, 0, 0, 0>>

\* an order that is not the order of the code: the roughness loop has
\* ended and the second loop of generateNormal has stored a pixel while
\* the AO loop is between its two pixels and the metallic loop has not
\* started, on an image of two colours
C13_Witness ==
    /\ run.phase = "generating"
    /\ StepPixels = 2
    /\ PixelBytes(run.image.data, 1) # PixelBytes(run.image.data, 2)
    /\ run.pos.ao = 2
    /\ run.pos.roughness = 3
    /\ run.pos.metallic = 1
    /\ run.pos.normal = 2
    /\ PixelBytes(run.buf.roughness, 2)[1] \in 1..254

\* C14 for the promises: a generation whose source does not decode is
\* pending or rejected with the load error, no generator has run for it
\* and it holds no texture set; and a promise settles once.
UndecodableRejected ==
    \A g \in GenIds :
        /\ gens[g].settled = (IF gens[g].status = "pending" THEN 0 ELSE 1)
        /\ ~Decodable(gens[g].src) =>
              /\ gens[g].status \in {"pending", "rejected"}
              /\ gens[g].value = NoTextures
              /\ ~gens[g].generated
              /\ gens[g].status = "rejected" => gens[g].error = LoadError

\* C14 for the App: the displayed set is never one of a source that does
\* not decode
NoSetOfUndecodable ==
    pbrTextures # NoTextures =>
        \A m \in DOMAIN pbrTextures : Decodable(pbrTextures[m].src)

\* C14: if the source cannot be decoded the invocation is rejected with
\* the load error, no generator runs, no texture set is returned or
\* displayed, and the invocation settles exactly once.
C14_LoadFailure == UndecodableRejected /\ NoSetOfUndecodable

\* the generation of a source that does not decode has been rejected, with
\* a texture set of an earlier image still displayed
C14_Witness ==
    /\ pbrTextures # NoTextures
    /\ \E g \in GenIds :
          /\ ~Decodable(gens[g].src)
          /\ gens[g].status = "rejected"
          /\ gens[g].error = LoadError

\* the files whose type does not start with 'image/'
OtherFiles ==
    {file \in Files :
        file.type \in {"text/plain", "application/image/png", "image", ""}}

\* C15: a call of handleFileUpload with a file whose type does not start
\* with 'image/' starts no file read and no generation and leaves
\* uploadedImage, pbrTextures and isGenerating unchanged.
C15_MimeGating ==
    [][\A file \in OtherFiles :
          handleFileUpload(file) =>
              UNCHANGED <<readers, gens, started, uploadedImage, pbrTextures,
                          isGenerating>>]_vars

\* a file that is no image has been refused after a Clear, while the
\* generation of the cleared image is in flight
C15_Witness ==
    /\ toast = "Please upload an image file"
    /\ uploadedImage = Null
    /\ readers = {}
    /\ Pending # {}
    /\ isGenerating

\* C16: in every reachable state, if no image is loaded then no texture
\* set is held; after clearAll, pbrTextures stays null until a new image
\* is uploaded, also when a generation that was in flight completes.
C16_NoImageNoTextures == uploadedImage = Null => pbrTextures = NoTextures

\* C17: in every reachable state isGenerating is true while a generation
\* is in flight (so that Regenerate, which is disabled while isGenerating,
\* starts no generation while another has not settled), and it is false
\* when none is.
C17_GeneratingWhileInFlight ==
    /\ Pending # {} => isGenerating
    /\ gens = <<>> => ~isGenerating

\* C18: every generation the App starts, from an upload or from
\* Regenerate, is invoked with the four values the sliders hold at the
\* moment it starts.
C18_StartsWithSliderValues ==
    [][started' # started =>
          gens'[Len(gens')].options = CurrentOptions]_vars

----------------------------------------------------------------------------
(* Properties of the resize step, continued *)

\* C19: for every source image of at least 1x1 pixels the resized width
\* and height are at least 1, and the resize step does not make the
\* generation fail.
C19_ResizedNonEmpty ==
    run.phase = "done" =>
        /\ run.out.width >= 1
        /\ run.out.height >= 1
        /\ run.out.status = "resolved"

====
